---- MODULE Spec2Model ----
(***************************************************************************)
(* A model of the solyield dashboard: the client's investment workflow     *)
(* (swap SOL to RAY, add RAY-USDC liquidity, stake the LP tokens, record   *)
(* the position), the Express handlers it talks to, the session map of     *)
(* SolanaService and the rows of the relational store.                     *)
(***************************************************************************)
EXTENDS Integers, Sequences, FiniteSets, TLC

VARIABLES
    nodeEnv,            \* process.env.NODE_ENV of the client build
    modal,              \* which InvestmentModal source is mounted
    connectedWallets,   \* SolanaService.connectedWallets : sessionId -> walletData
    keypairs,           \* number of Keypair.generate() calls so far
    users,              \* rows of table users, in id order
    userPortfolio,      \* rows of table user_portfolios, in id order
    transactions,       \* rows of table transactions, in id order
    solanaSubscriptions,\* rows of table solana_subscriptions, in id order
    payments,           \* subscription payments confirmed on chain
    chatServed,         \* POST /api/chat requests answered by the assistant
    userChats,          \* OpenAIService.userChats : sessionId -> ChatMessage[]
    wf,                 \* the current invocation of investMutation.mutationFn
    settled,            \* the earlier invocations, as they ended
    keepRayOffers,      \* the "Keep RAY" buttons on screen
    other,              \* the invocation of a second mounted InvestmentModal
    userPreferences,    \* rows of table user_preferences, in id order
    inflight,           \* the server's requests that are between two awaits
    walletContext       \* SolanaWalletContextProvider: wallet, isSubscribed, effects

vars == <<nodeEnv, walletContext, modal, connectedWallets, keypairs, users, userPortfolio,
          transactions, solanaSubscriptions, payments, chatServed, userChats, wf,
          settled, keepRayOffers, other, userPreferences, inflight>>

----------------------------------------------------------------------------
(* Bounds of the model *)

MaxWorkflows == 2       \* invocations of the investment workflow
MaxAmount == 2          \* largest amount the user enters (SOL)
MaxRate == 2            \* largest RAY-per-SOL quote of the swap venue
MaxSlippage == 1        \* largest slippage the swap incurs (RAY)
MaxPrice == 1           \* largest USDC-per-RAY ratio of the pool
MaxUsdc == 2            \* largest USDC balance of the wallet
MaxKeypairs == 1        \* server-side connects (each generates a keypair)

----------------------------------------------------------------------------
(* Strings *)

\* String.prototype.includes
includes(str, sub) ==
    \E i \in 1..(Len(str) - Len(sub) + 1) : SubSeq(str, i, i + Len(sub) - 1) = sub

----------------------------------------------------------------------------
(* Values *)

Sessions == {"s1", "s2"}

\* the browser session the InvestmentModal runs in
ClientSession == "s1"

NoWallet == [connected |-> FALSE]

\* walletData.userId undefined
NoUser == 0

\* the opportunities the modal can be opened for (props.opportunity)
Opportunities ==
    { [id |-> 1, tokenPair |-> <<"SOL", "RAY">>],
      [id |-> 2, tokenPair |-> <<"SOL", "USDC">>],
      [id |-> 3, tokenPair |-> <<"RAY">>] }

\* JSON values of a request body, with their JavaScript type
JsonNumber(n) == [t |-> "number", v |-> n]
JsonString(str) == [t |-> "string", v |-> str]

----------------------------------------------------------------------------
(* shared/schema.ts *)

zNumber(x) == x.t = "number"
zString(x) == x.t = "string"
zDate(x) == x.t = "date"
zBoolean(x) == x.t = "boolean"

\* a schema that asks only for what the client sends (userId and depositDate
\* left to the server)
clientPortfolioSchema(body) ==
    /\ "opportunityId" \in DOMAIN body /\ zNumber(body.opportunityId)
    /\ "amount" \in DOMAIN body /\ (zNumber(body.amount) \/ zString(body.amount))
    /\ "token" \in DOMAIN body /\ zString(body.token)

\* insertUserPortfolioSchema.parse(req.body) does not throw
insertUserPortfolioSchema(body) ==
    /\ "userId" \in DOMAIN body /\ zNumber(body.userId)
    /\ "opportunityId" \in DOMAIN body /\ zNumber(body.opportunityId)
    /\ "amount" \in DOMAIN body /\ (zNumber(body.amount) \/ zString(body.amount))
    /\ "depositDate" \in DOMAIN body /\ zDate(body.depositDate)
    /\ "token" \in DOMAIN body /\ zString(body.token)
    /\ ("active" \in DOMAIN body => zBoolean(body.active))

----------------------------------------------------------------------------
(* server/services/solana.ts *)

\* SolanaService.getWalletStatus; rpcOk: connection.getBalance did not throw
getWalletStatus(sessionId, rpcOk) ==
    LET walletData == connectedWallets[sessionId] IN
    IF ~walletData.connected THEN [connected |-> FALSE, userId |-> NoUser]
    ELSE IF ~rpcOk THEN [connected |-> FALSE, userId |-> NoUser]
    ELSE [connected |-> TRUE, address |-> walletData.address,
          userId |-> walletData.userId]

----------------------------------------------------------------------------
(* server/storage.ts *)

\* storage.getUserByWalletAddress: the matching rows (at most one)
getUserByWalletAddress(walletAddress) ==
    { i \in 1..Len(users) : users[i].walletAddress = walletAddress }

\* storage.createInvestment(userId, data); `by` is the invocation that sent
\* the request, dbFail the write at which the database fails ("none" if none).
\* The result: rows appended to user_portfolios and transactions, and
\* whether the call threw.
createInvestment(userId, data, by, dbFail) ==
    LET known == data.opportunityId.v \in { o.id : o \in Opportunities }
        row == [userId |-> userId, opportunityId |-> data.opportunityId.v,
                amount |-> data.amount.v, token |-> data.token.v, by |-> by]
        txRow == [userId |-> userId, opportunityId |-> data.opportunityId.v,
                  transactionType |-> "invest", amount |-> data.amount.v,
                  token |-> data.token.v, status |-> "completed", by |-> by]
    IN  IF ~known \/ dbFail = "portfolio"
        THEN [portfolio |-> <<>>, transactions |-> <<>>, threw |-> TRUE]
        ELSE IF dbFail = "transaction"
        THEN [portfolio |-> <<row>>, transactions |-> <<>>, threw |-> TRUE]
        ELSE [portfolio |-> <<row>>, transactions |-> <<txRow>>, threw |-> FALSE]

DbFailures == {"none", "portfolio", "transaction"}

----------------------------------------------------------------------------
(* server/routes.ts *)

\* POST /api/portfolio/invest: the response status and the rows written
PortfolioInvest(sessionId, body, by, rpcOk, dbFail) ==
    LET walletStatus == getWalletStatus(sessionId, rpcOk) IN
    IF ~walletStatus.connected \/ walletStatus.userId = NoUser
    THEN [status |-> 401, error |-> "Not connected or user not found",
          portfolio |-> <<>>, transactions |-> <<>>]
    ELSE IF ~insertUserPortfolioSchema(body)
    THEN [status |-> 400, error |-> "ZodError",
          portfolio |-> <<>>, transactions |-> <<>>]
    ELSE LET r == createInvestment(walletStatus.userId, body, by, dbFail) IN
         [status |-> IF r.threw THEN 400 ELSE 200,
          error |-> IF r.threw THEN "PrismaClientKnownRequestError" ELSE "",
          portfolio |-> r.portfolio, transactions |-> r.transactions]

----------------------------------------------------------------------------
(* client/src/lib/queryClient.ts (not among the sources) *)

\* apiRequest rejects on a response that is not 2xx
apiRequestThrows(status) == status < 200 \/ status > 299

----------------------------------------------------------------------------
(* client/src/lib/solanaSwap.ts, client/src/lib/rayStaking.ts *)

Min(a, b) == IF a < b THEN a ELSE b

Range(seq) == { seq[i] : i \in 1..Len(seq) }

\* what the wallet adapter, axios and the RPC client raise
WalletRejected == "User rejected the request."
ApiFailed == "Request failed with status code 500"

\* the errors swapSolToRay re-throws
SwapErrors == {WalletRejected, ApiFailed}

\* Number.prototype.toFixed(2) of an amount held in hundredths
toFixedCents(c) ==
    ToString(c \div 100) \o "." \o ToString((c % 100) \div 10) \o ToString(c % 10)

\* computePairAmount(...).maxAnotherAmount with slippage new Percent(1, 100),
\* in hundredths of a USDC, at `price` USDC per RAY
maxAnotherAmount(rayAmount, price) == rayAmount * price * 101

\* checkUsdcBalanceForLiquidity; obs is what the SDK and the chain report
checkUsdcBalanceForLiquidity(rayAmount, obs) ==
    IF obs.error
    THEN [hasEnoughUsdc |-> FALSE, requiredUsdc |-> 0, usdcBalance |-> 0]
    ELSE [hasEnoughUsdc |-> obs.usdcBalance * 100 >= maxAnotherAmount(rayAmount, obs.price),
          requiredUsdc |-> maxAnotherAmount(rayAmount, obs.price),
          usdcBalance |-> obs.usdcBalance * 100]

UsdcObservations ==
    [error : BOOLEAN, price : 0..MaxPrice, usdcBalance : 0..MaxUsdc]

\* the start of the message thrown when confirmTransaction reports an error
TransactionFailed == "Transaction failed"

\* sendTransaction was reached: the call returned, or threw after confirming
submitted(thrown) ==
    \/ thrown = ""
    \/ /\ Len(thrown) >= Len(TransactionFailed)
       /\ SubSeq(thrown, 1, Len(TransactionFailed)) = TransactionFailed

\* usdcBalance < requiredUsdc for the amount addRayUsdcLiquidity would pair
usdcShort(rayAmount, obs) ==
    obs.usdcBalance * 100 < maxAnotherAmount(Min(rayAmount, obs.rayBalance), obs.price)

\* addRayUsdcLiquidity without its comparison of usdcBalance and requiredUsdc
addLiquidityUnchecked(rayAmount, obs) ==
    IF rayAmount <= 0 THEN "RAY amount must be greater than zero"
    ELSE IF obs.sdk = "apiError" THEN ApiFailed
    ELSE IF ~obs.validAmm THEN "Target pool is not a valid AMM pool"
    ELSE IF ~obs.rayFound
    THEN "RAY token account not found. Make sure you have RAY tokens in your wallet."
    ELSE IF Min(rayAmount, obs.rayBalance) <= 0 THEN "Insufficient RAY balance"
    ELSE IF ~obs.usdcFound THEN "USDC token account not found"
    ELSE IF obs.sdk = "rejected" THEN WalletRejected
    ELSE IF obs.sdk = "txError" THEN "Transaction failed: {\"InstructionError\":[0,\"Custom\"]}"
    ELSE ""

\* addRayUsdcLiquidity: "" when the transaction is confirmed, else the
\* message of the error it throws
addRayUsdcLiquidity(rayAmount, obs) ==
    IF rayAmount <= 0 THEN "RAY amount must be greater than zero"
    ELSE IF obs.sdk = "apiError" THEN ApiFailed
    ELSE IF ~obs.validAmm THEN "Target pool is not a valid AMM pool"
    ELSE IF ~obs.rayFound
    THEN "RAY token account not found. Make sure you have RAY tokens in your wallet."
    ELSE IF Min(rayAmount, obs.rayBalance) <= 0 THEN "Insufficient RAY balance"
    ELSE IF ~obs.usdcFound THEN "USDC token account not found"
    ELSE IF obs.usdcBalance * 100 < maxAnotherAmount(Min(rayAmount, obs.rayBalance), obs.price)
    THEN "Insufficient USDC balance. Required: "
            \o toFixedCents(maxAnotherAmount(Min(rayAmount, obs.rayBalance), obs.price))
            \o ", Available: " \o toFixedCents(obs.usdcBalance * 100)
    ELSE IF maxAnotherAmount(Min(rayAmount, obs.rayBalance), obs.price) = 0
    THEN "Cannot add liquidity with zero amounts"
    ELSE IF obs.sdk = "rejected" THEN WalletRejected
    ELSE IF obs.sdk = "txError" THEN "Transaction failed: {\"InstructionError\":[0,\"Custom\"]}"
    ELSE ""

LiquidityObservations ==
    [sdk : {"ok", "apiError", "rejected", "txError"}, validAmm : BOOLEAN,
     rayFound : BOOLEAN, rayBalance : 0..MaxAmount,
     usdcFound : BOOLEAN, usdcBalance : 0..MaxUsdc, price : 0..MaxPrice]

\* stakeRayToFarm: "" when the deposit is confirmed, else the message thrown
stakeRayToFarm(obs) ==
    IF obs.sdk = "apiError" THEN ApiFailed
    ELSE IF ~obs.farmInfo THEN "Failed to fetch farm information"
    ELSE IF ~obs.lpFound THEN "No LP tokens found for this farm"
    ELSE IF obs.sdk = "rejected" THEN WalletRejected
    ELSE IF obs.sdk = "txError" THEN "Transaction failed: {\"InstructionError\":[0,\"Custom\"]}"
    ELSE ""

StakeObservations ==
    [sdk : {"ok", "apiError", "rejected", "txError"}, farmInfo : BOOLEAN,
     lpFound : BOOLEAN]

----------------------------------------------------------------------------
(* client/src/components/modals/investment-modal.tsx and the InvestmentModal
   of src/unnamed/part_010 *)

Modals == {"investment-modal.tsx", "part_010"}

\* balanceData.balance when the wallet context holds no balance
DefaultBalance == 1245

isSolRayPair(opportunity) ==
    /\ Len(opportunity.tokenPair) = 2
    /\ "SOL" \in Range(opportunity.tokenPair)
    /\ "RAY" \in Range(opportunity.tokenPair)

\* balance || 1245.00 (0 stands for null and for 0)
balanceData(balance) ==
    [balance |-> IF balance = 0 THEN DefaultBalance ELSE balance, currency |-> "SOL"]

\* a test that leaves out the 'RAY token' case
isUsdcOrLiquidityError(errorMessage) ==
    \/ includes(errorMessage, "liquidity")
    \/ includes(errorMessage, "USDC")
    \/ includes(errorMessage, "amounts")

isLiquidityError(errorMessage) ==
    \/ includes(errorMessage, "liquidity")
    \/ includes(errorMessage, "USDC")
    \/ includes(errorMessage, "amounts")
    \/ includes(errorMessage, "RAY token")

\* the currency of the wallet balance, whatever the opportunity
balanceCurrency(opportunity) == balanceData(0).currency

\* the token of the record request
investToken(opportunity) ==
    IF isSolRayPair(opportunity) THEN "RAY" ELSE "SOL"

\* the amount of the record request
investAmount(r) == r.amountValue

\* the body of the record request of mutationFn
investBody(r) ==
    [opportunityId |-> JsonNumber(r.opportunity.id),
     amount |-> JsonNumber(investAmount(r)),
     token |-> JsonString(investToken(r.opportunity))]

\* the body of the request the "Keep RAY" button sends
keepRayBody(r) ==
    [opportunityId |-> JsonNumber(r.opportunity.id),
     amount |-> JsonNumber(r.amountValue),
     token |-> JsonString("RAY")]

NoOpportunity == [id |-> 0, tokenPair |-> <<>>]

\* an invocation that has not started; id counts the invocations
IdleWorkflow ==
    [id |-> 0, pc |-> "idle", opportunity |-> NoOpportunity, amountValue |-> 0,
     autoStake |-> FALSE, estimatedRayAmount |-> 0,
     swapCalled |-> FALSE, swapError |-> "", swapped |-> FALSE, rayOut |-> 0,
     actualRayAmount |-> 0, failedStage |-> "", stakeError |-> "",
     liquidityAdded |-> FALSE, staked |-> FALSE, toast |-> "",
     calls |-> [swap |-> 0, addLiquidity |-> 0, stake |-> 0],
     liquiditySubmitted |-> FALSE, submittedShort |-> FALSE,
     walletReady |-> TRUE, stoppedAt |-> "", keepRayRequested |-> FALSE,
     requested |-> FALSE, request |-> [status |-> 0], error |-> ""]

\* a pending flag shared by every mounted modal
anyModalPending ==
    \/ wf.pc \notin {"idle", "resolved", "rejected", "stopped"}
    \/ other.pc \notin {"idle", "resolved", "rejected", "stopped"}

\* investMutation.isPending; a page that was closed and loaded again has a
\* new mutation, which is not pending
isPending == wf.pc \notin {"idle", "resolved", "rejected", "stopped"}

\* what is kept of an invocation that ended
Summary(r) == [id |-> r.id, swapFailed |-> r.swapError # "", pc |-> r.pc]

\* a catch that re-throws what it caught
rethrownMessage(m, message) == message

\* the message the mutation rejects with when the swap try block throws
swapFailedMessage(m, message) ==
    IF m = "investment-modal.tsx"
    THEN "Failed to convert SOL to RAY. Please try again."
    ELSE "Failed to convert SOL to RAY: " \o message

\* catch (error) around the swap: the invocation after it
swapCatch(r, message) ==
    IF modal = "part_010" /\ nodeEnv = "development"
    THEN [r EXCEPT !.pc = "record"]
    ELSE [r EXCEPT !.pc = "rejected", !.error = swapFailedMessage(modal, message)]

\* a catch that lets the error of the stage reject the mutation
stakeRethrow(r, errorMessage, stage) ==
    [r EXCEPT !.failedStage = stage, !.stakeError = errorMessage,
              !.pc = "rejected", !.error = errorMessage]

\* a catch that calls a failed add-liquidity or stake a second time
stakeRetry(r, errorMessage, stage) ==
    [r EXCEPT !.failedStage = stage, !.stakeError = errorMessage,
              !.pc = IF stage = "addLiquidity" /\ r.calls.addLiquidity < 2
                     THEN "addLiquidity"
                     ELSE IF stage = "stake" /\ r.calls.stake < 2
                     THEN "stake" ELSE "record"]

\* a catch that goes on to the staking call after a failed add-liquidity
stakeContinue(r, errorMessage, stage) ==
    [r EXCEPT !.failedStage = stage, !.stakeError = errorMessage,
              !.pc = IF stage = "addLiquidity" THEN "stake" ELSE "record"]

\* catch (stakeError) around liquidity and staking: the invocation after it
stakeCatch(r, errorMessage, stage) ==
    [r EXCEPT !.failedStage = stage,
              !.stakeError = errorMessage,
              !.toast = IF isLiquidityError(errorMessage)
                        THEN "Adding liquidity failed" ELSE "Staking failed",
              !.pc = "record"]

\* the "Keep RAY" button the toast of stakeCatch carries
keepRayOffer(r, errorMessage) ==
    IF isLiquidityError(errorMessage)
    THEN {[by |-> r.id, body |-> keepRayBody(r)]}
    ELSE {}

\* the values of the autoStake switch: shown for a SOL/RAY pair only, and
\* initially on
AutoStakes(opportunity) ==
    IF modal = "investment-modal.tsx" /\ isSolRayPair(opportunity)
    THEN BOOLEAN ELSE {TRUE}

\* the values of estimatedRayAmount: set from getEstimatedRayOutput for a
\* SOL/RAY pair (0 when the quote fails), else null (0 stands for both)
Estimates(opportunity, amount) ==
    IF modal = "investment-modal.tsx" /\ isSolRayPair(opportunity)
    THEN { amount * rate : rate \in 0..MaxRate } ELSE {0}

UnchangedServer ==
    UNCHANGED <<nodeEnv, walletContext, modal, connectedWallets, keypairs, users,
                solanaSubscriptions, payments, chatServed, userChats, other,
                userPreferences, inflight>>

\* handleInvest, and mutationFn up to its first await (in part_010 the
\* wallet check is the first statement of its own swapSolToRay)
HandleInvest(opportunity, amount, balance, autoStake, estimated, walletReady) ==
    /\ ~isPending
    /\ wf.id < MaxWorkflows
    /\ amount > 0
    /\ amount <= balanceData(balance).balance
    /\ autoStake \in AutoStakes(opportunity)
    /\ estimated \in Estimates(opportunity, amount)
    /\ LET r == [IdleWorkflow EXCEPT
                    !.id = wf.id + 1,
                    !.opportunity = opportunity, !.amountValue = amount,
                    !.walletReady = walletReady,
                    !.autoStake = autoStake, !.estimatedRayAmount = estimated]
       IN  wf' = IF ~isSolRayPair(opportunity) THEN [r EXCEPT !.pc = "record"]
                 ELSE IF ~walletReady /\ modal = "investment-modal.tsx"
                 THEN swapCatch([r EXCEPT !.swapError = "Wallet not connected"],
                                "Wallet not connected")
                 ELSE IF ~walletReady
                 THEN swapCatch([r EXCEPT !.swapCalled = TRUE, !.calls.swap = 1,
                                          !.swapError = "Wallet not connected"],
                                "Swap failed: Wallet not connected")
                 ELSE [r EXCEPT !.pc = "swap"]
    /\ settled' = IF wf.pc = "idle" THEN settled ELSE Append(settled, Summary(wf))
    /\ UNCHANGED <<userPortfolio, transactions, keepRayOffers>>
    /\ UnchangedServer

\* await swapSolToRay(...) settles
SwapSolToRay ==
    /\ wf.pc = "swap"
    /\ LET r == [wf EXCEPT !.swapCalled = TRUE,
                           !.calls.swap = wf.calls.swap + 1] IN
       \/ \E rate \in 1..MaxRate, slippage \in 0..MaxSlippage :
             /\ r.amountValue * rate - slippage > 0
             /\ wf' = [r EXCEPT !.swapped = TRUE,
                                !.rayOut = r.amountValue * rate - slippage,
                                !.pc = IF modal = "investment-modal.tsx" /\ r.autoStake
                                       THEN "getRayBalance" ELSE "record"]
       \/ \E e \in SwapErrors :
             wf' = IF modal = "investment-modal.tsx"
                   THEN swapCatch([r EXCEPT !.swapError = e], e)
                   ELSE IF nodeEnv = "development"
                   THEN [r EXCEPT !.swapError = e, !.pc = "record"]
                   ELSE swapCatch([r EXCEPT !.swapError = e],
                                  "Swap failed: Raydium API error: " \o e)
    /\ UNCHANGED <<userPortfolio, transactions, settled, keepRayOffers>>
    /\ UnchangedServer

\* await getRayBalance(...) settles; found and balance are what the RPC reports
GetRayBalance ==
    /\ wf.pc = "getRayBalance"
    /\ \E found \in BOOLEAN, rayBalance \in 0..(MaxAmount * MaxRate) :
          /\ ~found => rayBalance = 0
          /\ IF ~found \/ rayBalance <= 0
             THEN /\ wf' = stakeCatch(wf, "RAY tokens not found in wallet", "getRayBalance")
                  /\ keepRayOffers' = keepRayOffers
                        \cup keepRayOffer(wf, "RAY tokens not found in wallet")
             ELSE /\ wf' = [wf EXCEPT
                        !.actualRayAmount =
                            Min(rayBalance, IF wf.estimatedRayAmount # 0
                                            THEN wf.estimatedRayAmount
                                            ELSE wf.amountValue),
                        !.pc = "checkUsdc"]
                  /\ UNCHANGED keepRayOffers
    /\ UNCHANGED <<userPortfolio, transactions, settled>>
    /\ UnchangedServer

\* the message thrown when checkUsdcBalanceForLiquidity reports too little
insufficientUsdc(res) ==
    "Insufficient USDC balance. Required: " \o toFixedCents(res.requiredUsdc) \o " USDC"

\* await checkUsdcBalanceForLiquidity(...) settles
CheckUsdcBalance ==
    /\ wf.pc = "checkUsdc"
    /\ \E obs \in UsdcObservations :
          LET res == checkUsdcBalanceForLiquidity(wf.actualRayAmount, obs) IN
          IF ~res.hasEnoughUsdc
          THEN /\ wf' = stakeCatch(wf, insufficientUsdc(res), "checkUsdc")
               /\ keepRayOffers' = keepRayOffers \cup keepRayOffer(wf, insufficientUsdc(res))
          ELSE /\ wf' = [wf EXCEPT !.pc = "addLiquidity"]
               /\ UNCHANGED keepRayOffers
    /\ UNCHANGED <<userPortfolio, transactions, settled>>
    /\ UnchangedServer

\* await addRayUsdcLiquidity(...) settles
AddRayUsdcLiquidity ==
    /\ wf.pc = "addLiquidity"
    /\ \E out \in { [thrown |-> addRayUsdcLiquidity(wf.actualRayAmount, obs),
                      short |-> usdcShort(wf.actualRayAmount, obs)] :
                            obs \in LiquidityObservations } :
          LET r == [wf EXCEPT
                      !.calls.addLiquidity = wf.calls.addLiquidity + 1,
                      !.liquiditySubmitted = submitted(out.thrown),
                      !.submittedShort = submitted(out.thrown) /\ out.short]
          IN
          IF out.thrown # ""
          THEN /\ wf' = stakeCatch(r, out.thrown, "addLiquidity")
               /\ keepRayOffers' = keepRayOffers \cup keepRayOffer(wf, out.thrown)
          ELSE /\ wf' = [r EXCEPT !.liquidityAdded = TRUE, !.pc = "stake"]
               /\ UNCHANGED keepRayOffers
    /\ UNCHANGED <<userPortfolio, transactions, settled>>
    /\ UnchangedServer

\* await stakeRayToFarm(...) settles
StakeRayToFarm ==
    /\ wf.pc = "stake"
    /\ \E thrown \in { stakeRayToFarm(obs) : obs \in StakeObservations } :
          LET r == [wf EXCEPT !.calls.stake = wf.calls.stake + 1] IN
          IF thrown # ""
          THEN /\ wf' = stakeCatch(r, thrown, "stake")
               /\ keepRayOffers' = keepRayOffers \cup keepRayOffer(wf, thrown)
          ELSE /\ wf' = [r EXCEPT !.staked = TRUE, !.pc = "record"]
               /\ UNCHANGED keepRayOffers
    /\ UNCHANGED <<userPortfolio, transactions, settled>>
    /\ UnchangedServer

\* return await apiRequest('POST', '/api/portfolio/invest', ...): the
\* request, the handler and the settling of the mutation
Record ==
    /\ wf.pc = "record"
    /\ \E rpcOk \in BOOLEAN, dbFail \in DbFailures :
          LET body == investBody(wf)
              res == PortfolioInvest(ClientSession, body, wf.id, rpcOk, dbFail)
          IN  /\ userPortfolio' = userPortfolio \o res.portfolio
              /\ transactions' = transactions \o res.transactions
              /\ wf' = [wf EXCEPT
                        !.requested = TRUE,
                        !.request = [status |-> res.status, error |-> res.error,
                                     body |-> body],
                        !.pc = IF apiRequestThrows(res.status)
                               THEN "rejected" ELSE "resolved",
                        !.error = IF apiRequestThrows(res.status)
                                  THEN ToString(res.status) ELSE ""]
    /\ UNCHANGED <<settled, keepRayOffers>>
    /\ UnchangedServer

\* the user clicks "Keep RAY" in the toast of a failed liquidity stage
KeepRay ==
    /\ \E offer \in keepRayOffers, rpcOk \in BOOLEAN, dbFail \in DbFailures :
          LET res == PortfolioInvest(ClientSession, offer.body, offer.by, rpcOk, dbFail)
          IN  /\ userPortfolio' = userPortfolio \o res.portfolio
              /\ transactions' = transactions \o res.transactions
              /\ keepRayOffers' = keepRayOffers \ {offer}
              /\ wf' = IF offer.by = wf.id
                        THEN [wf EXCEPT !.keepRayRequested = TRUE] ELSE wf
    /\ UNCHANGED settled
    /\ UnchangedServer

----------------------------------------------------------------------------
(* server/routes.ts: the wallet routes *)

\* POST /api/wallet/connect -> SolanaService.connectWallet(sessionId);
\* prefsOk: createUserPreferences did not throw (its error is only logged)
ConnectWallet(sessionId, prefsOk) ==
    /\ keypairs < MaxKeypairs
    /\ LET address == "keypair" \o ToString(keypairs + 1)
           userId == Len(users) + 1
       IN  /\ getUserByWalletAddress(address) = {}
           /\ users' = Append(users, [id |-> userId, walletAddress |-> address])
           /\ userPreferences' = IF prefsOk
                                 THEN Append(userPreferences, [userId |-> userId])
                                 ELSE userPreferences
           /\ connectedWallets' = [connectedWallets EXCEPT ![sessionId] =
                 [connected |-> TRUE, address |-> address, userId |-> userId]]
    /\ keypairs' = keypairs + 1
    /\ UNCHANGED <<nodeEnv, walletContext, modal, userPortfolio, transactions,
                   solanaSubscriptions, payments, chatServed, userChats, wf, settled,
                   keepRayOffers, other, inflight>>

\* POST /api/wallet/disconnect -> SolanaService.disconnectWallet(sessionId)
DisconnectWallet(sessionId) ==
    /\ connectedWallets[sessionId].connected
    /\ connectedWallets' = [connectedWallets EXCEPT ![sessionId] = NoWallet]
    /\ UNCHANGED <<nodeEnv, walletContext, modal, keypairs, users, userPortfolio, transactions,
                   solanaSubscriptions, payments, chatServed, userChats, wf, settled,
                   keepRayOffers, other, userPreferences, inflight>>

----------------------------------------------------------------------------
(* client/src/contexts/SolanaWalletContext.tsx: the provider's state *)

\* the provider as it mounts: no wallet, useState(false), no effect started.
\* runs: the requests started by the effect on [connected, publicKey], each
\* with the publicKey of the render that started it and the await it is at
NoWalletContext ==
    [connected |-> FALSE, publicKey |-> "", isSubscribed |-> FALSE,
     runs |-> <<>>]

----------------------------------------------------------------------------
(* The investment workflow against the server *)

Init ==
    /\ nodeEnv \in {"development", "production"}
    /\ walletContext = NoWalletContext
    /\ modal \in Modals
    /\ connectedWallets = [s \in Sessions |-> NoWallet]
    /\ keypairs = 0
    /\ users = <<>>
    /\ userPortfolio = <<>>
    /\ transactions = <<>>
    /\ solanaSubscriptions = <<>>
    /\ payments = {}
    /\ chatServed = {}
    /\ userChats = [s \in Sessions |-> <<>>]
    /\ wf = IdleWorkflow
    /\ settled = <<>>
    /\ keepRayOffers = {}
    /\ other = IdleWorkflow
    /\ userPreferences = <<>>
    /\ inflight = <<>>

Next ==
    \/ \E opportunity \in Opportunities, amount \in 0..MaxAmount,
          balance \in 0..MaxAmount, autoStake \in BOOLEAN,
          estimated \in 0..(MaxAmount * MaxRate), walletReady \in BOOLEAN :
            HandleInvest(opportunity, amount, balance, autoStake, estimated,
                         walletReady)
    \/ SwapSolToRay
    \/ GetRayBalance
    \/ CheckUsdcBalance
    \/ AddRayUsdcLiquidity
    \/ StakeRayToFarm
    \/ Record
    \/ KeepRay
    \/ ConnectWallet(ClientSession, TRUE)
    \/ DisconnectWallet(ClientSession)

Spec == Init /\ [][Next]_vars

----------------------------------------------------------------------------
(* Properties of the investment workflow *)

\* the rows the store holds for invocation id
RowsBy(id) ==
    { row \in Range(userPortfolio) \cup Range(transactions) : row.by = id }

\* the invocations that ended, the current one included
Ended ==
    Range(settled) \cup (IF wf.pc \in {"resolved", "rejected"}
                         THEN {Summary(wf)} ELSE {})

C2_RecordRequestAccepted ==
    (/\ wf.swapped /\ wf.requested
     /\ wf.request.status # 401
     /\ wf.request.error # "PrismaClientKnownRequestError")
        => /\ wf.request.status = 200
           /\ \E row \in Range(userPortfolio) : row.by = wf.id
           /\ \E row \in Range(transactions) : row.by = wf.id

\* C3: a failure of getRayBalance, of the USDC check, of add-liquidity or of
\* staking does not reject the mutation: the invocation goes on to the
\* record request, and a rejection it ends with is that of the request.
C3_StageFailureDoesNotFail ==
    wf.failedStage # "" =>
        /\ wf.swapped
        /\ wf.pc = "record" \/ wf.requested
        /\ wf.pc = "rejected" => wf.error = ToString(wf.request.status)
        /\ wf.error # wf.stakeError

\* every stage after the swap has its failure followed by the record request
C3_Witness ==
    /\ wf.failedStage = "stake" /\ wf.requested
    /\ wf.stakeError = "No LP tokens found for this farm"

C5_UsdcSkipRecordsRay ==
    wf.failedStage = "checkUsdc" =>
        /\ wf.requested => wf.request.body.token = JsonString("RAY")
        /\ \A row \in RowsBy(wf.id) : row.token = "RAY"
        /\ \A offer \in keepRayOffers :
              offer.by = wf.id => offer.body.token = JsonString("RAY")

\* the USDC check failed and the record request was sent
C5_Witness ==
    /\ wf.failedStage = "checkUsdc" /\ wf.requested
    /\ includes(wf.stakeError, "Insufficient USDC balance. Required: ")

\* C6: when add-liquidity succeeded and staking failed, the token of the
\* position sent for recording is the LP token of the RAY-USDC pool.
C6_StakeFailureRecordsLp ==
    (wf.liquidityAdded /\ wf.failedStage = "stake" /\ wf.requested)
        => wf.request.body.token # JsonString("RAY")

\* C7: when only the swap is performed and it succeeds, the amount of the
\* position sent for recording is the RAY the swap delivered.
C7_RecordsSwapOutput ==
    (/\ wf.swapped /\ wf.requested
     /\ modal = "investment-modal.tsx" => ~wf.autoStake)
        => wf.request.body.amount = JsonNumber(wf.rayOut)

----------------------------------------------------------------------------
(* The subscription gate: server/routes.ts, server/storage.ts and the
   SubscriptionModal of src/unnamed/part_000 *)

\* the wallets of the browser extension, and the signatures of transactions
Wallets == {"walletA", "walletB"}
Signatures == {"sig1", "sig2"}

\* SUBSCRIPTION_FEE, in millionths of a SOL
SubscriptionFee == 1

\* storage.getUserSubscription: the active rows of the user
getUserSubscription(userId) ==
    { sub \in Range(solanaSubscriptions) : sub.userId = userId /\ sub.isActive }

\* storage.checkUserIsSubscribed
checkUserIsSubscribed(userId) == getUserSubscription(userId) # {}

\* subscriptionSchema.parse(req.body) does not throw
subscriptionSchema(body) ==
    /\ "walletAddress" \in DOMAIN body /\ zString(body.walletAddress)
    /\ "transactionHash" \in DOMAIN body /\ zString(body.transactionHash)
    /\ "amount" \in DOMAIN body /\ zNumber(body.amount)

\* the bodies a client may send to POST /api/wallet/subscribe
SubscribeBodies ==
    [walletAddress : { JsonString(a) : a \in Wallets },
     transactionHash : { JsonString(h) : h \in Signatures },
     amount : {JsonNumber(SubscriptionFee), JsonString("1")}]

\* POST /api/wallet/subscribe: the users and subscriptions after the request
WalletSubscribe(sessionId, body, rpcOk) ==
    IF ~subscriptionSchema(body)
    THEN [status |-> 400, users |-> users, subscriptions |-> solanaSubscriptions]
    ELSE
    LET walletStatus == getWalletStatus(sessionId, rpcOk)
        bySession == walletStatus.connected /\ walletStatus.userId # NoUser
        found == getUserByWalletAddress(body.walletAddress.v)
        userId == IF bySession THEN walletStatus.userId
                  ELSE IF found # {} THEN users[CHOOSE i \in found : TRUE].id
                  ELSE Len(users) + 1
        users1 == IF bySession \/ found # {} THEN users
                  ELSE Append(users, [id |-> userId,
                                      walletAddress |-> body.walletAddress.v])
    IN  [status |-> 200, users |-> users1,
         subscriptions |->
            IF checkUserIsSubscribed(userId) THEN solanaSubscriptions
            ELSE Append(solanaSubscriptions,
                        [userId |-> userId,
                         transactionHash |-> body.transactionHash.v,
                         amount |-> ToString(body.amount.v),
                         isActive |-> TRUE])]

UnchangedWorkflow ==
    UNCHANGED <<nodeEnv, walletContext, modal, userPortfolio, transactions, wf, settled,
                keepRayOffers, other, userPreferences, inflight>>

\* a request to POST /api/wallet/subscribe, from any client
Subscribe(sessionId, body, rpcOk) ==
    /\ LET res == WalletSubscribe(sessionId, body, rpcOk) IN
          /\ users' = res.users
          /\ solanaSubscriptions' = res.subscriptions
    /\ UNCHANGED <<connectedWallets, keypairs, payments, chatServed, userChats>>
    /\ UnchangedWorkflow

\* SubscriptionModal.handleSubscribe with `wallet` connected and its balance
\* sufficient: paySubscription is confirmed on chain with signature
\* txSignature, then the subscription is posted from the browser's session
HandleSubscribe(wallet, txSignature, sessionId, rpcOk) ==
    /\ \A p \in payments : p.signature # txSignature
    /\ payments' = payments \cup {[from |-> wallet, signature |-> txSignature]}
    /\ LET res == WalletSubscribe(sessionId,
                     [walletAddress |-> JsonString(wallet),
                      transactionHash |-> JsonString(txSignature),
                      amount |-> JsonNumber(SubscriptionFee)], rpcOk)
       IN  /\ users' = res.users
           /\ solanaSubscriptions' = res.subscriptions
    /\ UNCHANGED <<connectedWallets, keypairs, chatServed, userChats>>
    /\ UnchangedWorkflow

----------------------------------------------------------------------------
(* OpenAIService: the chat history of a session *)

MaxHistory == 12        \* processMessage is not called on a longer history
MaxGateHistory == 3     \* the same, for the requests of the subscription gate

HistoryLimit == 10

SystemMessage == [role |-> "system", content |-> "You are SolSeeker"]

\* the message texts a client sends
Messages == {"hello"}

\* how a call goes: "ok" the completion arrives, "unavailable" there is no
\* OpenAI client, "openaiError" the completion or the intent extraction
\* throws, "storageError" storage.getYieldOpportunities throws
ChatOutcomes == {"ok", "unavailable", "openaiError", "storageError"}

\* the text processMessage answers with
chatResponse(outcome) ==
    IF outcome = "ok" THEN "completion"
    ELSE IF outcome = "unavailable"
    THEN "I'm sorry, but the AI chat service is currently unavailable."
    ELSE IF outcome = "openaiError"
    THEN "I'm sorry, I encountered an error processing your request."
    ELSE "Sorry, I encountered an error processing your request. Please try again."

\* [chatHistory[0], ...chatHistory.slice(chatHistory.length - 9)] when the
\* history is longer than 10
limitHistory(chatHistory) ==
    IF Len(chatHistory) > HistoryLimit
    THEN <<chatHistory[1]>> \o SubSeq(chatHistory, Len(chatHistory) - 8, Len(chatHistory))
    ELSE chatHistory

\* what the map holds after the outer catch: the array taken from the map
\* was pushed to in place; an array made by `|| []` was never stored
afterThrow(stored, pushed) == IF stored = <<>> THEN <<>> ELSE pushed

\* processMessage(sessionId, message): stored is userChats.get(sessionId)
\* (<<>> when the map has no entry); the result is the entry after the call
\* and the response text
processMessage(stored, message, outcome) ==
    LET opened == IF Len(stored) = 0 THEN <<SystemMessage>> ELSE stored
        pushed == Append(opened, [role |-> "user", content |-> message])
        answered == Append(pushed, [role |-> "assistant",
                                    content |-> chatResponse(outcome)])
    IN  IF outcome = "storageError"
        THEN [stored |-> afterThrow(stored, pushed),
              response |-> chatResponse(outcome)]
        ELSE [stored |-> limitHistory(answered),
              response |-> chatResponse(outcome)]

\* POST /api/chat with a message: the requests that reach
\* openAIService.processMessage, each with whether the session's user held
\* an active subscription then
Chat(sessionId, rpcOk, message, outcome) ==
    /\ Len(userChats[sessionId]) < MaxGateHistory
    /\ LET walletStatus == getWalletStatus(sessionId, rpcOk) IN
          /\ walletStatus.connected
          /\ chatServed' = chatServed \cup
                {[sessionId |-> sessionId, userId |-> walletStatus.userId,
                  isSubscribed |-> checkUserIsSubscribed(walletStatus.userId)]}
    /\ userChats' = [userChats EXCEPT ![sessionId] =
                        processMessage(@, message, outcome).stored]
    /\ UNCHANGED <<connectedWallets, keypairs, users, solanaSubscriptions,
                   payments>>
    /\ UnchangedWorkflow

GateInit ==
    /\ nodeEnv = "production"
    /\ walletContext = NoWalletContext
    /\ modal = "investment-modal.tsx"
    /\ connectedWallets = [s \in Sessions |-> NoWallet]
    /\ keypairs = 0
    /\ users = <<>>
    /\ userPortfolio = <<>>
    /\ transactions = <<>>
    /\ solanaSubscriptions = <<>>
    /\ payments = {}
    /\ chatServed = {}
    /\ userChats = [s \in Sessions |-> <<>>]
    /\ wf = IdleWorkflow
    /\ settled = <<>>
    /\ keepRayOffers = {}
    /\ other = IdleWorkflow
    /\ userPreferences = <<>>
    /\ inflight = <<>>

GateNext ==
    \/ \E sessionId \in Sessions : ConnectWallet(sessionId, TRUE)
    \/ \E sessionId \in Sessions : DisconnectWallet(sessionId)
    \/ \E sessionId \in Sessions, body \in SubscribeBodies, rpcOk \in BOOLEAN :
          Subscribe(sessionId, body, rpcOk)
    \/ \E wallet \in Wallets, txSignature \in Signatures,
          sessionId \in Sessions, rpcOk \in BOOLEAN :
          HandleSubscribe(wallet, txSignature, sessionId, rpcOk)
    \/ \E sessionId \in Sessions, rpcOk \in BOOLEAN, message \in Messages,
          outcome \in ChatOutcomes : Chat(sessionId, rpcOk, message, outcome)

GateSpec == GateInit /\ [][GateNext]_vars

\* the wallet address of a user
walletOf(userId) ==
    { users[i].walletAddress : i \in { j \in 1..Len(users) : users[j].id = userId } }

\* C9: POST /api/chat reaches the assistant only for a user who holds an
\* active subscription row.
C9_ChatNeedsSubscription ==
    \A c \in chatServed : c.isSubscribed

\* C10: every active subscription row carries the signature of a confirmed
\* payment made from the wallet of the row's user.
C10_ActiveRowNeedsPayment ==
    \A sub \in Range(solanaSubscriptions) :
        sub.isActive =>
            \E p \in payments :
                /\ p.signature = sub.transactionHash
                /\ p.from \in walletOf(sub.userId)

\* GET /api/wallet/subscription?address=...: the isSubscribed of the answer
WalletSubscription(address) ==
    LET found == getUserByWalletAddress(address) IN
    IF found = {} THEN FALSE
    ELSE checkUserIsSubscribed(users[CHOOSE i \in found : TRUE].id)

\* C11: right after a POST /api/wallet/subscribe for wallet address A was
\* answered with success, GET /api/wallet/subscription?address=A answers
\* isSubscribed true, whatever the state of the session that sent it.
C11_SubscribeThenSubscribed ==
    [][\A sessionId \in Sessions, body \in SubscribeBodies, rpcOk \in BOOLEAN :
          (/\ Subscribe(sessionId, body, rpcOk)
           /\ WalletSubscribe(sessionId, body, rpcOk).status = 200)
             => WalletSubscription(body.walletAddress.v)']_vars

----------------------------------------------------------------------------
(* The handlers of server/routes.ts step by step: a handler gives way to
   the other requests at each await of a database call *)

MaxInflight == 2        \* requests the server handles at the same time

Requests == 1..MaxInflight

NoRequest == [pc |-> "none"]

\* prisma.user.findUnique({ where: { walletAddress } }) finds a row
walletAddressTaken(walletAddress) == getUserByWalletAddress(walletAddress) # {}

\* prisma.userPreference.findUnique({ where: { userId } }) finds a row
preferenceTaken(userId) ==
    \E i \in 1..Len(userPreferences) : userPreferences[i].userId = userId

\* a column without a unique index: no insert is refused
notUnique(userId) == FALSE

\* the @unique of UserPreference.userId: prisma.userPreference.create throws
userIdUnique(userId) == preferenceTaken(userId)

\* a column without a unique index: prisma.user.create never throws P2002
noUniqueIndex(walletAddress) == FALSE

\* the @unique of User.walletAddress: prisma.user.create throws P2002
walletAddressUnique(walletAddress) == walletAddressTaken(walletAddress)

\* the slot holds no request that is still being handled
free(r) == inflight[r].pc \in {"none", "responded"}

\* res.json({ success: true, userId: user.id }) of POST /api/wallet/register;
\* raced: the user was read again after P2002
registered(req, userId, raced) ==
    [pc |-> "responded", kind |-> "register", walletAddress |-> req.walletAddress,
     transactionHash |-> "", userId |-> userId, status |-> 200, raced |-> raced]

\* the id of the user row with the wallet address
userIdOf(walletAddress) ==
    users[CHOOSE i \in getUserByWalletAddress(walletAddress) : TRUE].id

UnchangedByRequests ==
    UNCHANGED <<nodeEnv, walletContext, modal, connectedWallets, keypairs, userPortfolio,
                transactions, payments, chatServed, userChats, wf, settled,
                keepRayOffers, other>>

\* POST /api/wallet/register arrives: getUserByWalletAddress
StartRegister(r, walletAddress) ==
    /\ free(r)
    /\ inflight' = [inflight EXCEPT ![r] =
          IF walletAddressTaken(walletAddress)
          THEN registered([walletAddress |-> walletAddress],
                          userIdOf(walletAddress), FALSE)
          ELSE [pc |-> "createUser", kind |-> "register",
                walletAddress |-> walletAddress, transactionHash |-> "",
                userId |-> NoUser]]
    /\ UNCHANGED <<users, userPreferences, solanaSubscriptions>>
    /\ UnchangedByRequests

\* POST /api/wallet/subscribe arrives: getWalletStatus
StartSubscribe(r, sessionId, body, rpcOk) ==
    /\ free(r)
    /\ subscriptionSchema(body)
    /\ LET walletStatus == getWalletStatus(sessionId, rpcOk)
           bySession == walletStatus.connected /\ walletStatus.userId # NoUser
       IN  inflight' = [inflight EXCEPT ![r] =
              [pc |-> IF bySession THEN "getSubscription" ELSE "findUser",
               kind |-> "subscribe",
               walletAddress |-> body.walletAddress.v,
               transactionHash |-> body.transactionHash.v,
               userId |-> IF bySession THEN walletStatus.userId ELSE NoUser]]
    /\ UNCHANGED <<users, userPreferences, solanaSubscriptions>>
    /\ UnchangedByRequests

\* PATCH /api/user/preferences arrives: getWalletStatus
StartPreferences(r, sessionId, rpcOk) ==
    /\ free(r)
    /\ LET walletStatus == getWalletStatus(sessionId, rpcOk) IN
          /\ walletStatus.connected /\ walletStatus.userId # NoUser
          /\ inflight' = [inflight EXCEPT ![r] =
                [pc |-> "findPreferences", kind |-> "preferences",
                 walletAddress |-> "", transactionHash |-> "",
                 userId |-> walletStatus.userId]]
    /\ UNCHANGED <<users, userPreferences, solanaSubscriptions>>
    /\ UnchangedByRequests

\* storage.getUserByWalletAddress of POST /api/wallet/subscribe
FindUser(r) ==
    /\ inflight[r].pc = "findUser"
    /\ inflight' = [inflight EXCEPT ![r] =
          IF walletAddressTaken(inflight[r].walletAddress)
          THEN [inflight[r] EXCEPT !.pc = "getSubscription",
                                   !.userId = userIdOf(inflight[r].walletAddress)]
          ELSE [inflight[r] EXCEPT !.pc = "createUser"]]
    /\ UNCHANGED <<users, userPreferences, solanaSubscriptions>>
    /\ UnchangedByRequests

\* storage.createUser, and on P2002 the second getUserByWalletAddress
CreateUser(r) ==
    /\ inflight[r].pc = "createUser"
    /\ LET req == inflight[r]
           taken == walletAddressUnique(req.walletAddress)
           userId == IF taken THEN userIdOf(req.walletAddress) ELSE Len(users) + 1
       IN  /\ users' = IF taken THEN users
                       ELSE Append(users, [id |-> userId,
                                           walletAddress |-> req.walletAddress])
           /\ inflight' = [inflight EXCEPT ![r] =
                 IF req.kind = "subscribe"
                 THEN [req EXCEPT !.pc = "getSubscription", !.userId = userId]
                 ELSE IF taken THEN registered(req, userId, TRUE)
                 ELSE [req EXCEPT !.pc = "createPreferences", !.userId = userId]]
    /\ UNCHANGED <<userPreferences, solanaSubscriptions>>
    /\ UnchangedByRequests

\* prisma.userPreference.findUnique of updateUserPreferences
FindPreferences(r) ==
    /\ inflight[r].pc = "findPreferences"
    /\ inflight' = [inflight EXCEPT ![r] =
          IF preferenceTaken(inflight[r].userId)
          THEN NoRequest       \* prisma.userPreference.update: no new row
          ELSE [inflight[r] EXCEPT !.pc = "createPreferences"]]
    /\ UNCHANGED <<users, userPreferences, solanaSubscriptions>>
    /\ UnchangedByRequests

\* storage.createUserPreferences, of register and of updateUserPreferences
CreatePreferences(r) ==
    /\ inflight[r].pc = "createPreferences"
    /\ userPreferences' =
          IF userIdUnique(inflight[r].userId) THEN userPreferences
          ELSE Append(userPreferences, [userId |-> inflight[r].userId])
    /\ inflight' = [inflight EXCEPT ![r] =
          IF inflight[r].kind = "register"
          THEN registered(inflight[r], inflight[r].userId, FALSE)
          ELSE NoRequest]
    /\ UNCHANGED <<users, solanaSubscriptions>>
    /\ UnchangedByRequests

\* storage.getUserSubscription of POST /api/wallet/subscribe
GetSubscription(r) ==
    /\ inflight[r].pc = "getSubscription"
    /\ inflight' = [inflight EXCEPT ![r] =
          IF checkUserIsSubscribed(inflight[r].userId) THEN NoRequest
          ELSE [inflight[r] EXCEPT !.pc = "createSubscription"]]
    /\ UNCHANGED <<users, userPreferences, solanaSubscriptions>>
    /\ UnchangedByRequests

\* storage.createSubscription of POST /api/wallet/subscribe
CreateSubscription(r) ==
    /\ inflight[r].pc = "createSubscription"
    /\ solanaSubscriptions' = Append(solanaSubscriptions,
          [userId |-> inflight[r].userId,
           transactionHash |-> inflight[r].transactionHash,
           amount |-> ToString(SubscriptionFee), isActive |-> TRUE])
    /\ inflight' = [inflight EXCEPT ![r] = NoRequest]
    /\ UNCHANGED <<users, userPreferences>>
    /\ UnchangedByRequests

\* the wallet the concurrent requests are about, and their bodies
RequestWallets == {"walletA"}

RequestBodies ==
    [walletAddress : { JsonString(a) : a \in RequestWallets },
     transactionHash : {JsonString("sig1")},
     amount : {JsonNumber(SubscriptionFee)}]

RequestInit ==
    /\ nodeEnv = "production"
    /\ walletContext = NoWalletContext
    /\ modal = "investment-modal.tsx"
    /\ connectedWallets = [s \in Sessions |-> NoWallet]
    /\ keypairs = 0
    /\ users = <<>>
    /\ userPortfolio = <<>>
    /\ transactions = <<>>
    /\ solanaSubscriptions = <<>>
    /\ payments = {}
    /\ chatServed = {}
    /\ userChats = [s \in Sessions |-> <<>>]
    /\ wf = IdleWorkflow
    /\ settled = <<>>
    /\ keepRayOffers = {}
    /\ other = IdleWorkflow
    /\ userPreferences = <<>>
    /\ inflight = [r \in Requests |-> NoRequest]

RequestNext ==
    \/ \E prefsOk \in BOOLEAN : ConnectWallet(ClientSession, prefsOk)
    \/ DisconnectWallet(ClientSession)
    \/ \E r \in Requests, walletAddress \in RequestWallets :
          StartRegister(r, walletAddress)
    \/ \E r \in Requests, body \in RequestBodies, rpcOk \in BOOLEAN :
          StartSubscribe(r, ClientSession, body, rpcOk)
    \/ \E r \in Requests, rpcOk \in BOOLEAN : StartPreferences(r, ClientSession, rpcOk)
    \/ \E r \in Requests : FindUser(r)
    \/ \E r \in Requests : CreateUser(r)
    \/ \E r \in Requests : FindPreferences(r)
    \/ \E r \in Requests : CreatePreferences(r)
    \/ \E r \in Requests : GetSubscription(r)
    \/ \E r \in Requests : CreateSubscription(r)

RequestSpec == RequestInit /\ [][RequestNext]_vars

\* the active subscription rows of a user
ActiveRows(userId) ==
    { i \in 1..Len(solanaSubscriptions) :
        solanaSubscriptions[i].userId = userId /\ solanaSubscriptions[i].isActive }

\* C12: after any sequence of subscribe requests, two of them handled at the
\* same time included, a user has at most one active subscription row.
C12_OneActiveSubscription ==
    \A i \in 1..Len(users) : Cardinality(ActiveRows(users[i].id)) <= 1

\* C13: no two user rows have the same wallet address and no user has more
\* than one preference row, in every state that register, connect,
\* subscribe and preference-update requests lead to, however interleaved.
C13_UniqueWalletAndPreferences ==
    /\ \A i, j \in 1..Len(users) :
          users[i].walletAddress = users[j].walletAddress => i = j
    /\ \A i, j \in 1..Len(userPreferences) :
          userPreferences[i].userId = userPreferences[j].userId => i = j

\* a request is about to create a preference row that another request
\* created since it looked, in a store where register and connect each
\* added a user
C13_Witness ==
    /\ inflight[2].pc = "createPreferences"
    /\ preferenceTaken(inflight[2].userId)
    /\ walletAddressTaken("walletA")
    /\ Len(users) = 2

----------------------------------------------------------------------------
(* the stages of the workflow *)

\* C14: the add-liquidity transaction is never submitted while the USDC
\* balance read by addRayUsdcLiquidity is below the amount required for the
\* RAY amount; and when checkUsdcBalanceForLiquidity reports too little,
\* add-liquidity and stake are not called and the workflow goes on to record
C14_NoLiquidityWithoutUsdc ==
    /\ ~wf.submittedShort
    /\ wf.failedStage = "checkUsdc" =>
          /\ wf.calls.addLiquidity = 0 /\ wf.calls.stake = 0
          /\ ~wf.liquiditySubmitted /\ ~wf.liquidityAdded /\ ~wf.staked
          /\ wf.pc = "record" \/ wf.requested

C14_Witness ==
    /\ wf.failedStage = "checkUsdc"
    /\ wf.swapped
    /\ wf.requested
    /\ wf.calls.addLiquidity = 0

\* C15: an invocation started while the wallet is not connected reports a
\* failure, submits no transaction on chain and issues no record request,
\* whatever the opportunity
C15_NoWalletNoRecord ==
    (wf.id > 0 /\ ~wf.walletReady) =>
        /\ wf.pc # "resolved"
        /\ ~wf.requested
        /\ ~wf.swapped /\ ~wf.liquiditySubmitted /\ ~wf.staked

\* C16: the stages run one after the other: add-liquidity is called only
\* after the swap is confirmed, stake only after add-liquidity is confirmed,
\* and the record request is issued only when every stage that was called
\* has succeeded or failed
C16_StagesSequential ==
    /\ (wf.pc \in {"getRayBalance", "checkUsdc", "addLiquidity"}
            \/ wf.calls.addLiquidity > 0) => wf.swapped
    /\ (wf.pc = "stake" \/ wf.calls.stake > 0) => wf.liquidityAdded
    /\ (wf.pc = "record" \/ wf.requested) =>
          /\ wf.calls.swap > 0 => (wf.swapped \/ wf.swapError # "")
          /\ wf.calls.addLiquidity > 0 =>
                (wf.liquidityAdded \/ wf.failedStage = "addLiquidity")
          /\ wf.calls.stake > 0 => (wf.staked \/ wf.failedStage = "stake")

C16_Witness ==
    /\ wf.calls.swap = 1 /\ wf.calls.addLiquidity = 1 /\ wf.calls.stake = 1
    /\ wf.staked
    /\ wf.requested

\* C19: within one invocation swap, add-liquidity and stake are each called
\* at most once; a stage that failed has been called once and is not called
\* again before the user starts a new invocation
C19_EachStageAtMostOnce ==
    /\ wf.calls.swap <= 1
    /\ wf.calls.addLiquidity <= 1
    /\ wf.calls.stake <= 1
    /\ wf.swapError # "" =>
          wf.pc \in {"record", "resolved", "rejected"} /\ wf.calls.addLiquidity = 0
    /\ wf.failedStage # "" =>
          wf.pc \in {"record", "resolved", "rejected"}

C19_Witness ==
    /\ wf.failedStage = "addLiquidity"
    /\ wf.calls.addLiquidity = 1
    /\ wf.calls.stake = 0
    /\ wf.requested

----------------------------------------------------------------------------
(* Two mounted modals of one browser session: wf is the invocation of the
   modal the user is looking at, other the invocation of the second one *)

\* the user turns to the other tab; each InvestmentModal has its own
\* useMutation, both share the session cookie
SwitchTab ==
    /\ wf' = other
    /\ other' = wf
    /\ UNCHANGED <<nodeEnv, walletContext, modal, connectedWallets, keypairs, users,
                   userPortfolio, transactions, solanaSubscriptions, payments,
                   chatServed, userChats, settled, keepRayOffers, userPreferences, inflight>>

\* a click on "Confirm Investment" in the modal the user is looking at;
\* the two modals together run at most MaxWorkflows invocations
TabsInvest ==
    /\ wf.id + other.id < MaxWorkflows
    /\ \E opportunity \in Opportunities, autoStake \in BOOLEAN,
          estimated \in 0..MaxRate :
            HandleInvest(opportunity, 1, 0, autoStake, estimated, TRUE)

TabsInit ==
    /\ Init
    /\ modal = "investment-modal.tsx"
    /\ nodeEnv = "production"
    /\ walletContext = NoWalletContext

TabsNext ==
    \/ TabsInvest
    \/ SwitchTab
    \/ SwapSolToRay
    \/ GetRayBalance
    \/ CheckUsdcBalance
    \/ AddRayUsdcLiquidity
    \/ StakeRayToFarm
    \/ Record
    \/ ConnectWallet(ClientSession, TRUE)

TabsSpec == TabsInit /\ [][TabsNext]_vars

----------------------------------------------------------------------------
(* The client stops in the middle of an invocation *)

\* an invocation whose page went away and whose request is sent all the same
stoppedResumes(r) == [r EXCEPT !.stoppedAt = r.pc, !.pc = "record"]

\* the invocation after its page went away: the promise chain of mutationFn
\* is gone, and nothing of its progress was stored anywhere
stopped(r) == [r EXCEPT !.stoppedAt = r.pc, !.pc = "stopped"]

\* the page is closed, reloaded or crashes after the swap was confirmed and
\* before the record request is sent; its toasts go with it
ClientStops ==
    /\ wf.swapped
    /\ wf.pc \in {"getRayBalance", "checkUsdc", "addLiquidity", "stake", "record"}
    /\ wf' = stopped(wf)
    /\ keepRayOffers' = {}
    /\ UNCHANGED <<userPortfolio, transactions, settled>>
    /\ UnchangedServer

CrashNext ==
    \/ \E opportunity \in Opportunities, amount \in 0..MaxAmount,
          balance \in 0..MaxAmount, autoStake \in BOOLEAN,
          estimated \in 0..(MaxAmount * MaxRate), walletReady \in BOOLEAN :
            HandleInvest(opportunity, amount, balance, autoStake, estimated,
                         walletReady)
    \/ SwapSolToRay
    \/ GetRayBalance
    \/ CheckUsdcBalance
    \/ AddRayUsdcLiquidity
    \/ StakeRayToFarm
    \/ Record
    \/ KeepRay
    \/ ConnectWallet(ClientSession, TRUE)
    \/ DisconnectWallet(ClientSession)
    \/ ClientStops

CrashSpec == Init /\ [][CrashNext]_vars

----------------------------------------------------------------------------
(* DatabaseStorage.createInvestment called with parsed data *)

MaxRows == 3

\* the values of InsertUserPortfolio that createInvestment reads;
\* opportunity 4 does not exist
InvestData ==
    [opportunityId : { JsonNumber(n) : n \in 1..4 },
     amount : { JsonNumber(n) : n \in 1..MaxAmount },
     token : { JsonString("SOL"), JsonString("RAY") }]

\* one call of storage.createInvestment(userId, data); by numbers the calls
\* that wrote a portfolio row
CreateInvestment(userId, data, dbFail) ==
    /\ Len(userPortfolio) < MaxRows
    /\ LET r == createInvestment(userId, data, Len(userPortfolio) + 1, dbFail) IN
          /\ userPortfolio' = userPortfolio \o r.portfolio
          /\ transactions' = transactions \o r.transactions
    /\ UNCHANGED <<wf, settled, keepRayOffers>>
    /\ UnchangedServer

StorageNext ==
    \E data \in InvestData, dbFail \in DbFailures :
        CreateInvestment(1, data, dbFail)

StorageSpec == Init /\ [][StorageNext]_vars

\* C20: after any call of createInvestment the portfolio rows it created are
\* as many as the 'invest' transaction rows it created: every portfolio row
\* has its transaction row
C20_PortfolioRowHasTransaction ==
    \A i \in 1..Len(userPortfolio) :
        \E j \in 1..Len(transactions) :
            /\ transactions[j].by = userPortfolio[i].by
            /\ transactions[j].transactionType = "invest"

----------------------------------------------------------------------------
(* the record requests of one invocation *)

\* C21: one invocation sends POST /api/portfolio/invest at most once, also
\* when its liquidity stage failed and the user clicks "Keep RAY": never
\* both the request of the mutation and the request of the button
C21_OneRecordRequest ==
    ~(wf.requested /\ wf.keepRayRequested)

----------------------------------------------------------------------------
(* the session after the connect sequence of the client *)

\* C22: once the client has registered its wallet address and connected the
\* session, the session acts on the user row of that address, and no user
\* row of any other address exists
C22_SessionActsOnRegisteredWallet ==
    \A address \in RequestWallets :
        (walletAddressTaken(address) /\ connectedWallets[ClientSession].connected)
            => /\ connectedWallets[ClientSession].address = address
               /\ users[connectedWallets[ClientSession].userId].walletAddress = address
               /\ \A i \in 1..Len(users) : users[i].walletAddress = address

----------------------------------------------------------------------------
(* two register requests at the same time *)

\* C23: register requests for the same wallet address, handled at the same
\* time or not, all answer success with the same userId, the id of the one
\* user row that exists for the address
C23_ConcurrentRegisterSameUser ==
    \A r1, r2 \in Requests :
        (/\ inflight[r1].pc = "responded" /\ inflight[r2].pc = "responded"
         /\ inflight[r1].walletAddress = inflight[r2].walletAddress)
            => /\ inflight[r1].status = 200
               /\ inflight[r1].userId = inflight[r2].userId
               /\ Cardinality(getUserByWalletAddress(inflight[r1].walletAddress)) = 1
               /\ inflight[r1].userId = userIdOf(inflight[r1].walletAddress)

\* both requests found no user; the second one ran into P2002
C23_Witness ==
    /\ inflight[1].pc = "responded" /\ inflight[2].pc = "responded"
    /\ inflight[1].walletAddress = inflight[2].walletAddress
    /\ ~inflight[1].raced
    /\ inflight[2].raced

----------------------------------------------------------------------------
(* OpenAIService.processMessage called for the sessions *)

\* one call of openAIService.processMessage(sessionId, message)
ProcessMessage(sessionId, message, outcome) ==
    /\ Len(userChats[sessionId]) < MaxHistory
    /\ userChats' = [userChats EXCEPT ![sessionId] =
                        processMessage(@, message, outcome).stored]
    /\ UNCHANGED <<connectedWallets, keypairs, users, solanaSubscriptions,
                   payments, chatServed>>
    /\ UnchangedWorkflow

\* the calls with an answer of the model, and the calls whose load of the
\* yield opportunities throws
CallOutcomes == {"ok", "storageError"}

ChatNext ==
    \E sessionId \in Sessions, message \in Messages, outcome \in CallOutcomes :
        ProcessMessage(sessionId, message, outcome)

ChatSpec == Init /\ [][ChatNext]_vars

\* C25: after any sequence of processMessage calls, failing ones included,
\* the history stored for a session has at most 10 messages and begins with
\* the system prompt
C25_HistoryBounded ==
    \A s \in Sessions :
        /\ Len(userChats[s]) <= HistoryLimit
        /\ Len(userChats[s]) > 0 => userChats[s][1] = SystemMessage

\* C26: a call that fails because loading the yield opportunities throws
\* leaves the stored history of the session as it was before the call
C26_FailedCallKeepsHistory ==
    [][\A s \in Sessions, message \in Messages :
          ProcessMessage(s, message, "storageError")
              => userChats'[s] = userChats[s]]_vars

----------------------------------------------------------------------------
(* server/routes.ts: the routes that ask getWalletStatus first *)

Routes ==
    {"POST /api/portfolio/invest", "POST /api/transactions", "GET /api/portfolio",
     "GET /api/transactions", "PATCH /api/user/preferences", "POST /api/chat"}

\* a getWalletStatus that takes every session for the one of the first user
walletStatusOfFirstUser(sessionId, rpcOk) ==
    [connected |-> TRUE, address |-> "keypair1", userId |-> 1]

\* the wallet status the handler of a route works with
routeWalletStatus(sessionId, rpcOk) == getWalletStatus(sessionId, rpcOk)

\* a JSON body as the client sends it to POST /api/portfolio/invest
RouteBody ==
    [opportunityId |-> JsonNumber(1), amount |-> JsonNumber(1),
     token |-> JsonString("SOL")]

\* the status a route answers with; valid: the body passes the checks of
\* the handler (a string `message` for the chat, the partial preference
\* schema for PATCH); no JSON body passes insertTransactionSchema or
\* insertUserPortfolioSchema, which require a Date
routeStatus(route, sessionId, rpcOk, valid) ==
    LET walletStatus == routeWalletStatus(sessionId, rpcOk)
        authorised == walletStatus.connected /\ walletStatus.userId # NoUser
    IN  IF route = "POST /api/chat"
        THEN IF ~valid THEN 400 ELSE IF ~walletStatus.connected THEN 401 ELSE 200
        ELSE IF route = "POST /api/portfolio/invest" /\ authorised
        THEN PortfolioInvest(sessionId, RouteBody, 0, rpcOk, "none").status
        ELSE IF ~authorised THEN 401
        ELSE IF route \in {"GET /api/portfolio", "GET /api/transactions"} THEN 200
        ELSE IF route = "PATCH /api/user/preferences"
        THEN IF valid THEN 200 ELSE 400
        ELSE 400

\* one request to one of the routes, handled to its response; inflight
\* keeps the response with what the handler found and did
HandleRoute(route, sessionId, rpcOk, valid, message, outcome) ==
    LET walletStatus == routeWalletStatus(sessionId, rpcOk)
        status == routeStatus(route, sessionId, rpcOk, valid)
        served == status = 200
        invested == IF route = "POST /api/portfolio/invest" /\ served
                    THEN PortfolioInvest(sessionId, RouteBody, 0, rpcOk, "none")
                    ELSE [portfolio |-> <<>>, transactions |-> <<>>]
    IN  /\ (route = "POST /api/chat" /\ served)
                => Len(userChats[sessionId]) < MaxGateHistory
        /\ userPreferences' =
              IF route = "PATCH /api/user/preferences" /\ served
                    /\ ~preferenceTaken(walletStatus.userId)
              THEN Append(userPreferences, [userId |-> walletStatus.userId])
              ELSE userPreferences
        /\ userChats' =
              IF route = "POST /api/chat" /\ served
              THEN [userChats EXCEPT ![sessionId] =
                        processMessage(@, message, outcome).stored]
              ELSE userChats
        /\ chatServed' =
              IF route = "POST /api/chat" /\ served
              THEN chatServed \cup
                     {[sessionId |-> sessionId, userId |-> walletStatus.userId,
                       isSubscribed |-> checkUserIsSubscribed(walletStatus.userId)]}
              ELSE chatServed
        /\ userPortfolio' = userPortfolio \o invested.portfolio
        /\ transactions' = transactions \o invested.transactions
        /\ inflight' =
              <<[route |-> route, sessionId |-> sessionId, valid |-> valid,
                 status |-> status,
                 connected |-> connectedWallets[sessionId].connected,
                 wrote |-> \/ userPreferences' # userPreferences
                           \/ userChats' # userChats
                           \/ userPortfolio' # userPortfolio
                           \/ transactions' # transactions]>>
        /\ UNCHANGED <<nodeEnv, walletContext, modal, connectedWallets, keypairs, users,
                       solanaSubscriptions, payments, wf, settled,
                       keepRayOffers, other>>

AuthNext ==
    \/ \E sessionId \in Sessions, prefsOk \in BOOLEAN :
          ConnectWallet(sessionId, prefsOk)
    \/ \E sessionId \in Sessions : DisconnectWallet(sessionId)
    \/ \E route \in Routes, sessionId \in Sessions, rpcOk \in BOOLEAN,
          valid \in BOOLEAN, message \in Messages, outcome \in ChatOutcomes :
          HandleRoute(route, sessionId, rpcOk, valid, message, outcome)

AuthSpec == GateInit /\ [][AuthNext]_vars

----------------------------------------------------------------------------
(* AIYieldAgent.autoInvest *)

\* getBestOpportunityForUser: the opportunityId of the recommendation with
\* the highest confidence, 0 for null
Recommendations == {0} \cup { o.id : o \in Opportunities }

\* the write at which the database fails; "createTransaction" is the write
\* of autoInvest's own storage.createTransaction
AutoInvestFailures == DbFailures \cup {"createTransaction"}

\* storage.createTransaction: the row appended to transactions
createTransaction(userId, data, by) ==
    [userId |-> userId, opportunityId |-> data.opportunityId.v,
     transactionType |-> data.transactionType, amount |-> data.amount.v,
     token |-> data.token.v, status |-> data.status, by |-> by]

\* autoInvest(userId, amount): what it returns and the rows it appends
autoInvest(userId, amount, best, by, dbFail) ==
    IF best = 0
    THEN [returned |-> FALSE, portfolio |-> <<>>, transactions |-> <<>>]
    ELSE LET data == [opportunityId |-> JsonNumber(best),
                      amount |-> JsonNumber(amount), token |-> JsonString("SOL")]
             inv == createInvestment(userId, data, by,
                        IF dbFail \in DbFailures THEN dbFail ELSE "none")
             logged == createTransaction(userId,
                          data @@ [transactionType |-> "invest",
                                   status |-> "completed"],
                          by)
         IN  IF inv.threw \/ dbFail = "createTransaction"
             THEN [returned |-> FALSE, portfolio |-> inv.portfolio,
                   transactions |-> inv.transactions]
             ELSE [returned |-> TRUE, portfolio |-> inv.portfolio,
                   transactions |-> Append(inv.transactions, logged)]

\* one call of aiYieldAgent.autoInvest; inflight keeps what the call
\* returned and how many rows it created
AutoInvest(userId, amount, best, dbFail) ==
    /\ Len(userPortfolio) < MaxRows
    /\ LET r == autoInvest(userId, amount, best, Len(userPortfolio) + 1, dbFail) IN
          /\ userPortfolio' = userPortfolio \o r.portfolio
          /\ transactions' = transactions \o r.transactions
          /\ inflight' = <<[returned |-> r.returned, found |-> best # 0,
                            opportunityId |-> best, amount |-> amount,
                            portfolio |-> r.portfolio,
                            transactions |-> r.transactions]>>
    /\ UNCHANGED <<nodeEnv, walletContext, modal, connectedWallets, keypairs, users,
                   solanaSubscriptions, payments, chatServed, userChats, wf,
                   settled, keepRayOffers, other, userPreferences>>

AutoInvestNext ==
    \E amount \in 1..MaxAmount, best \in Recommendations,
       dbFail \in AutoInvestFailures :
        AutoInvest(1, amount, best, dbFail)

AutoInvestSpec == Init /\ [][AutoInvestNext]_vars

\* C27: a call of autoInvest that returns true has created exactly one
\* portfolio row and exactly one transaction row, both for the recommended
\* opportunity and the amount; a call that finds no recommendation returns
\* false and creates no row
C27_AutoInvestOneRowEach ==
    \A res \in Range(inflight) :
        /\ res.returned =>
              /\ Len(res.portfolio) = 1 /\ Len(res.transactions) = 1
              /\ \A row \in Range(res.portfolio) \cup Range(res.transactions) :
                    row.opportunityId = res.opportunityId /\ row.amount = res.amount
        /\ ~res.found =>
              ~res.returned /\ res.portfolio = <<>> /\ res.transactions = <<>>

----------------------------------------------------------------------------
(* the start of the workflow *)

\* C28: handleInvest starts the workflow only with an amount greater than
\* zero and not greater than the SOL balance of the connected wallet; with
\* a balance that is zero or not loaded (0) it does not start it
C28_StartNeedsAmountWithinBalance ==
    [][\A opportunity \in Opportunities, amount \in 0..MaxAmount,
         balance \in 0..MaxAmount, autoStake \in BOOLEAN,
         estimated \in 0..(MaxAmount * MaxRate), walletReady \in BOOLEAN :
            HandleInvest(opportunity, amount, balance, autoStake, estimated,
                         walletReady)
                => (amount > 0 /\ amount <= balance)]_vars

----------------------------------------------------------------------------
(* client/src/contexts/SolanaWalletContext.tsx: the effect on
   [wallet.connected, wallet.publicKey, connection] and the requests it
   starts. A run is one call of registerUser (or one fire-and-forget
   POST /api/wallet/disconnect); it keeps the wallet of the render that
   started it and is never cancelled *)

MaxRuns == 4            \* runs started by the effect and the modal

Runs == 1..MaxRuns

\* the on-chain check of @/lib/subscription: a confirmed subscription
\* payment was made from publicKey
checkSubscription(publicKey) == \E p \in payments : p.from = publicKey

\* the wallet holds a subscription: in the database or on chain
hasSubscription(publicKey) ==
    WalletSubscription(publicKey) \/ checkSubscription(publicKey)

\* GET /api/wallet/info: the isSubscribed of a 200 answer, FALSE on 401
walletInfoSubscribed(sessionId, rpcOk) ==
    LET walletStatus == getWalletStatus(sessionId, rpcOk) IN
    IF ~walletStatus.connected THEN FALSE
    ELSE IF walletStatus.userId # NoUser
    THEN checkUserIsSubscribed(walletStatus.userId)
    ELSE WalletSubscription(walletStatus.address)

\* a run moves to its next await
runAt(i, pc) ==
    [walletContext.runs EXCEPT ![i] = [@ EXCEPT !.pc = pc]]

\* the effect with wallet.connected: registerUser() is started
startRegisterUser(publicKey) ==
    Append(walletContext.runs,
           [publicKey |-> publicKey, by |-> "registerUser", pc |-> "register"])

\* SubscriptionModal.handleSubscribe awaits the context's
\* checkUserSubscription() once the subscription is recorded
startCheck(publicKey) ==
    Append(walletContext.runs,
           [publicKey |-> publicKey, by |-> "handleSubscribe",
            pc |-> "subscription"])

\* where a run continues once checkUserSubscription has returned
afterCheck(i) ==
    IF walletContext.runs[i].by = "registerUser" THEN "info" ELSE "done"

UnchangedByContext ==
    UNCHANGED <<nodeEnv, modal, userPortfolio, transactions, chatServed,
                userChats, wf, settled, keepRayOffers, other, inflight>>

\* the wallet adapter connects publicKey; the effect starts registerUser
\* and leaves isSubscribed as it is
WalletConnect(publicKey) ==
    /\ ~walletContext.connected
    /\ Len(walletContext.runs) < MaxRuns
    /\ walletContext' = [walletContext EXCEPT
            !.connected = TRUE, !.publicKey = publicKey,
            !.runs = startRegisterUser(publicKey)]
    /\ UNCHANGED <<connectedWallets, keypairs, users, solanaSubscriptions,
                   payments, userPreferences>>
    /\ UnchangedByContext

\* the user changes the account in the wallet: publicKey changes while
\* connected stays true, and the effect runs again
WalletSwitch(publicKey) ==
    /\ walletContext.connected
    /\ walletContext.publicKey # publicKey
    /\ Len(walletContext.runs) < MaxRuns
    /\ walletContext' = [walletContext EXCEPT
            !.publicKey = publicKey,
            !.runs = startRegisterUser(publicKey)]
    /\ UNCHANGED <<connectedWallets, keypairs, users, solanaSubscriptions,
                   payments, userPreferences>>
    /\ UnchangedByContext

\* the wallet adapter disconnects: the effect's else branch resets
\* isSubscribed and posts /api/wallet/disconnect without awaiting it
WalletDisconnect ==
    /\ walletContext.connected
    /\ Len(walletContext.runs) < MaxRuns
    /\ walletContext' = [walletContext EXCEPT
            !.connected = FALSE, !.publicKey = "", !.isSubscribed = FALSE,
            !.runs = Append(@, [publicKey |-> "", by |-> "effect",
                                pc |-> "disconnect"])]
    /\ UNCHANGED <<connectedWallets, keypairs, users, solanaSubscriptions,
                   payments, userPreferences>>
    /\ UnchangedByContext

\* POST /api/wallet/disconnect is handled
DisconnectArrives(i) ==
    /\ i \in 1..Len(walletContext.runs)
    /\ walletContext.runs[i].pc = "disconnect"
    /\ connectedWallets' = [connectedWallets EXCEPT ![ClientSession] = NoWallet]
    /\ walletContext' = [walletContext EXCEPT !.runs = runAt(i, "done")]
    /\ UNCHANGED <<keypairs, users, solanaSubscriptions, payments,
                   userPreferences>>
    /\ UnchangedByContext

\* registerUser: POST /api/wallet/register is answered (its status is only
\* logged); the server creates the user of the wallet if there is none
RegisterAnswered(i) ==
    /\ i \in 1..Len(walletContext.runs)
    /\ walletContext.runs[i].pc = "register"
    /\ LET walletAddress == walletContext.runs[i].publicKey
           userId == Len(users) + 1
       IN  IF walletAddressTaken(walletAddress)
           THEN UNCHANGED <<users, userPreferences>>
           ELSE /\ users' = Append(users, [id |-> userId,
                                           walletAddress |-> walletAddress])
                /\ userPreferences' =
                      Append(userPreferences, [userId |-> userId])
    /\ walletContext' = [walletContext EXCEPT !.runs = runAt(i, "connect")]
    /\ UNCHANGED <<connectedWallets, keypairs, solanaSubscriptions, payments>>
    /\ UnchangedByContext

\* registerUser: POST /api/wallet/connect is answered (its status is only
\* logged); ok: connectWallet did not throw
ConnectAnswered(i, ok) ==
    /\ i \in 1..Len(walletContext.runs)
    /\ walletContext.runs[i].pc = "connect"
    /\ IF ok
       THEN /\ keypairs < MaxKeypairs
            /\ LET address == "keypair" \o ToString(keypairs + 1)
                   userId == Len(users) + 1
               IN  /\ users' = Append(users, [id |-> userId,
                                              walletAddress |-> address])
                   /\ userPreferences' =
                         Append(userPreferences, [userId |-> userId])
                   /\ connectedWallets' =
                         [connectedWallets EXCEPT ![ClientSession] =
                            [connected |-> TRUE, address |-> address,
                             userId |-> userId]]
            /\ keypairs' = keypairs + 1
       ELSE UNCHANGED <<users, userPreferences, connectedWallets, keypairs>>
    /\ walletContext' = [walletContext EXCEPT !.runs = runAt(i, "subscription")]
    /\ UNCHANGED <<solanaSubscriptions, payments>>
    /\ UnchangedByContext

\* checkUserSubscription: GET /api/wallet/subscription?address= is
\* answered for the wallet of the run; fetched: the fetch did not throw
SubscriptionAnswered(i, fetched) ==
    /\ i \in 1..Len(walletContext.runs)
    /\ walletContext.runs[i].pc = "subscription"
    /\ LET isSubscribed == WalletSubscription(walletContext.runs[i].publicKey)
       IN  walletContext' =
             IF ~fetched
             THEN [walletContext EXCEPT !.runs = runAt(i, afterCheck(i))]
             ELSE IF isSubscribed
             THEN [walletContext EXCEPT !.isSubscribed = TRUE,
                                        !.runs = runAt(i, afterCheck(i))]
             ELSE [walletContext EXCEPT !.runs = runAt(i, "onchain")]
    /\ UNCHANGED <<connectedWallets, keypairs, users, solanaSubscriptions,
                   payments, userPreferences>>
    /\ UnchangedByContext

\* checkUserSubscription: checkSubscription(connection, publicKey) is
\* answered for the wallet of the run; rpcOk: it did not throw
OnChainAnswered(i, rpcOk) ==
    /\ i \in 1..Len(walletContext.runs)
    /\ walletContext.runs[i].pc = "onchain"
    /\ walletContext' =
          IF rpcOk
          THEN [walletContext EXCEPT
                  !.isSubscribed = checkSubscription(walletContext.runs[i].publicKey),
                  !.runs = runAt(i, afterCheck(i))]
          ELSE [walletContext EXCEPT !.runs = runAt(i, afterCheck(i))]
    /\ UNCHANGED <<connectedWallets, keypairs, users, solanaSubscriptions,
                   payments, userPreferences>>
    /\ UnchangedByContext

\* registerUser: GET /api/wallet/info is answered for the session
InfoAnswered(i, rpcOk) ==
    /\ i \in 1..Len(walletContext.runs)
    /\ walletContext.runs[i].pc = "info"
    /\ walletContext' =
          IF walletInfoSubscribed(ClientSession, rpcOk)
          THEN [walletContext EXCEPT !.isSubscribed = TRUE,
                                     !.runs = runAt(i, "done")]
          ELSE [walletContext EXCEPT !.runs = runAt(i, "done")]
    /\ UNCHANGED <<connectedWallets, keypairs, users, solanaSubscriptions,
                   payments, userPreferences>>
    /\ UnchangedByContext

\* SubscriptionModal.handleSubscribe by the connected wallet, up to its
\* call of checkUserSubscription: the payment is confirmed, the
\* subscription is recorded and the check is started
ContextSubscribe(txSignature, rpcOk) ==
    /\ walletContext.connected
    /\ Len(walletContext.runs) < MaxRuns
    /\ \A p \in payments : p.signature # txSignature
    /\ payments' = payments \cup {[from |-> walletContext.publicKey,
                                    signature |-> txSignature]}
    /\ LET res == WalletSubscribe(ClientSession,
                     [walletAddress |-> JsonString(walletContext.publicKey),
                      transactionHash |-> JsonString(txSignature),
                      amount |-> JsonNumber(SubscriptionFee)], rpcOk)
       IN  /\ users' = res.users
           /\ solanaSubscriptions' = res.subscriptions
    /\ walletContext' = [walletContext EXCEPT
            !.runs = startCheck(walletContext.publicKey)]
    /\ UNCHANGED <<connectedWallets, keypairs, userPreferences>>
    /\ UnchangedByContext

ContextNext ==
    \/ \E publicKey \in Wallets : WalletConnect(publicKey)
    \/ \E publicKey \in Wallets : WalletSwitch(publicKey)
    \/ WalletDisconnect
    \/ \E i \in Runs : DisconnectArrives(i)
    \/ \E i \in Runs : RegisterAnswered(i)
    \/ \E i \in Runs, ok \in BOOLEAN : ConnectAnswered(i, ok)
    \/ \E i \in Runs, fetched \in BOOLEAN : SubscriptionAnswered(i, fetched)
    \/ \E i \in Runs, rpcOk \in BOOLEAN : OnChainAnswered(i, rpcOk)
    \/ \E i \in Runs, rpcOk \in BOOLEAN : InfoAnswered(i, rpcOk)
    \/ \E txSignature \in Signatures, rpcOk \in BOOLEAN :
          ContextSubscribe(txSignature, rpcOk)

ContextSpec == GateInit /\ [][ContextNext]_vars

\* C29: in the client wallet context isSubscribed is false whenever the
\* wallet is disconnected, and whenever it is true the connected wallet
\* holds a subscription, however the connect, disconnect and switch events
\* interleave with the answers to subscription checks started earlier.
C29_SubscribedMeansConnectedWalletSubscribed ==
    /\ ~walletContext.connected => ~walletContext.isSubscribed
    /\ walletContext.isSubscribed => hasSubscription(walletContext.publicKey)

====
